---------------------------- MODULE Spec2Model ----------------------------
(***************************************************************************)
(* A model of the recommendation core of LibRecommender:                   *)
(*   libreco/algorithms/base.py          Base (unknown-id guards)          *)
(*   libreco/algorithms/wide_deep.py     WideDeep.predict / recommend_user *)
(*   libreco/algorithms/youtube_match.py YouTubeMatch.predict /            *)
(*                                       recommend_user                    *)
(*   distributed/new_features/evaluate/metrics.py   the rank metrics       *)
(*                                                                         *)
(* Conventions.  Python ids are 0-based and are kept as they are: Users    *)
(* is 0..n_users-1 and Items is 0..n_items-1.  A Python list or numpy      *)
(* array is a TLA+ sequence, so Python position p is sequence index p+1.   *)
(* An optional value is a sequence of length at most one: None is << >>    *)
(* and a value v is <<v>>.  Real numbers are fixed-point integers (the     *)
(* sigmoid, scaled by 1000) or fractions <<numerator, denominator>>.       *)
(***************************************************************************)
EXTENDS Integers, Sequences, FiniteSets

(***************************************************************************)
(* Bounds of the model.                                                    *)
(***************************************************************************)
\* data_info.n_users / data_info.n_items of the data sets explored
n_users == 2
n_items == 3
\* the largest n_rec a caller asks for
MaxNRec == 3
\* the largest number of interactions in the training data
MaxInteractions == 1
\* the longest batch handed to predict
MaxBatch == 2
\* the largest k of the rank metrics, and the largest item id they see
MaxK == 3
\* the largest number of users a rank metric is averaged over
MaxEvalUsers == 2
\* the largest n_epochs a model is constructed with
MaxEpochs == 2
\* the most batches the data generator yields in one epoch
MaxBatchesPerEpoch == 2

Users == 0 .. (n_users - 1)
Items == 0 .. (n_items - 1)

None == << >>
Some(v) == <<v>>

\* the values a trained weight takes (embedding size 1)
Weights == {-1, 0, 1}
\* the values the user tower's output takes
UserVecs == {1}

Range(s) == {s[j] : j \in DOMAIN s}

RECURSIVE SumSeq(_)
SumSeq(s) == IF s = << >> THEN 0 ELSE Head(s) + SumSeq(Tail(s))

\* the sequences over S of length at most n
SeqsUpTo(S, n) == UNION {[1 .. m -> S] : m \in 0 .. n}

\* the sequences over S of length m without a repeated element
InjSeqs(S, m) == {s \in [1 .. m -> S] : \A a, b \in 1 .. m : a # b => s[a] # s[b]}

VARIABLES
    cls,            \* the model class: "WideDeep" or "YouTubeMatch"
    task,           \* self.task
    user_consumed,  \* self.user_consumed: None, or user -> list of item ids
    sess,           \* the trained variables held by self.sess: None until trained
    user_vector,    \* YouTubeMatch.user_vector: None, or user -> vector
    item_weights,   \* YouTubeMatch.item_weights: None, or item -> vector
    call,           \* the last call made on the model and what it produced
    metric,         \* the rank-metric function being evaluated, and where it is
    config,         \* the constructor arguments kept on the object
    graph,          \* what of the graph is built: "none", "model", "train_ops"
    fit,            \* the fit call that is running, and where it is
    clock           \* how many training batches the session has run, and at
                    \* which count user_vector and item_weights were taken

\* the variables only construction and fit write
fitvars == <<config, graph, fit, clock>>

vars == <<cls, task, user_consumed, sess, user_vector, item_weights, call,
          metric, config, graph, fit, clock>>

\* data_info.global_mean and data_info.min_max_rating of a rating data set
global_mean == 3
lower_bound == 1
upper_bound == 5

\* self.default_prediction = data_info.global_mean if task == "rating" else 0.0
default_prediction == IF task = "rating" THEN global_mean * 1000 ELSE 0

(***************************************************************************)
(* 1 / (1 + np.exp(-x)), in thousandths.  The map is monotone but, as in   *)
(* floating point, not injective: it saturates at both ends.               *)
(***************************************************************************)
Sigmoid(x) ==
    CASE x <= -3 -> 0
      [] x = -2 -> 119
      [] x = -1 -> 269
      [] x = 0 -> 500
      [] x = 1 -> 731
      [] x = 2 -> 881
      [] OTHER -> 1000

(***************************************************************************)
(* Base._check_unknown_user: the id if it is in range, None otherwise.     *)
(***************************************************************************)
_check_unknown_user(user) ==
    IF 0 <= user /\ user < n_users THEN Some(user) ELSE None

\* Python's "not user" on the value _check_unknown_user returned:
\* None is falsy, and so is the integer 0.
NotTruthy(checked) == checked = None \/ checked[1] = 0

(***************************************************************************)
(* The raw score of one (user, item) pair.                                 *)
(*   YouTubeMatch: np.multiply(user_vector[user], item_weights[item]),     *)
(*   summed (recommend_user: user_vector[user] @ item_weights.T).          *)
(*   WideDeep: what sess.run(self.output, feed_dict) yields for the pair.  *)
(***************************************************************************)
RawScore(user, item) ==
    IF cls = "YouTubeMatch"
    THEN user_vector[1][user] * item_weights[1][item]
    ELSE sess[1].user_repr[user] * sess[1].nce_weights[item]

\* np.clip(preds, self.lower_bound, self.upper_bound), in thousandths
Clip(x) ==
    IF x < lower_bound THEN lower_bound * 1000
    ELSE IF x > upper_bound THEN upper_bound * 1000 ELSE x * 1000

(***************************************************************************)
(* The score vector recommend_user ranks, item -> score: the sigmoid of    *)
(* the raw scores, except for a WideDeep rating model, which ranks the raw *)
(* scores.                                                                 *)
(***************************************************************************)
Recos(user) ==
    IF cls = "WideDeep" /\ task # "ranking"
    THEN [i \in Items |-> RawScore(user, i) * 1000]
    ELSE [i \in Items |-> Sigmoid(RawScore(user, i))]

(***************************************************************************)
(* np.argpartition(recos, -count)[-count:] for 1 <= count <= n_items: the  *)
(* element at position n_items - count of the partitioned array is the one *)
(* a full sort would put there, nothing before it is larger and nothing    *)
(* after it is smaller.  numpy leaves the order inside both parts          *)
(* undefined, so every such arrangement is a possible outcome.             *)
(***************************************************************************)
ArgPartitionTail(recos, count) ==
    {ids \in InjSeqs(Items, count) :
        /\ \A j \in 1 .. count : recos[ids[1]] <= recos[ids[j]]
        /\ \A i \in Items \ Range(ids) : recos[i] <= recos[ids[1]]}

(***************************************************************************)
(* np.argpartition keeps nothing from one call to the next and draws no    *)
(* random number: given the same array and the same kth it leaves the same *)
(* arrangement.  memo is the partition of the call made just before, if    *)
(* there was one: the array, the count and the arrangement it produced.    *)
(***************************************************************************)
ArgPartitionAgainMutant(recos, count, memo) == ArgPartitionTail(recos, count)

ArgPartitionAgain(recos, count, memo) ==
    IF memo # None /\ memo[1].recos = recos /\ memo[1].count = count
    THEN {memo[1].ids}
    ELSE ArgPartitionTail(recos, count)

\* np.argpartition raises ValueError when kth = -count is out of bounds
ArgPartitionRaises(count) == count > n_items

(***************************************************************************)
(* sorted(zip(ids, recos[ids]), key=lambda x: -x[1]): Python's sort is     *)
(* stable, so pairs with equal scores keep the order they have in ids.     *)
(***************************************************************************)
SortedRank(ids, recos) ==
    LET n == Len(ids)
        pos(j) == 1 + Cardinality({k \in 1 .. n : recos[ids[k]] > recos[ids[j]]})
                    + Cardinality({k \in 1 .. n :
                                      k < j /\ recos[ids[k]] = recos[ids[j]]})
    IN  [p \in 1 .. n |->
            LET j == CHOOSE j \in 1 .. n : pos(j) = p
            IN  <<ids[j], recos[ids[j]]>>]

\* (rec for rec in rank if rec[0] not in consumed)
NotConsumedMutant(rank, consumed) == rank
NotConsumed(rank, consumed) ==
    LET keep(rec) == rec[1] \notin Range(consumed)
    IN  SelectSeq(rank, keep)

\* list(islice(it, n_rec))
ISlice(it, n_rec) == SubSeq(it, 1, IF Len(it) < n_rec THEN Len(it) ELSE n_rec)

(***************************************************************************)
(* The steps recommend_user executes, in program order.  WideDeep scores   *)
(* first and looks the consumed list up afterwards; YouTubeMatch looks the *)
(* consumed list up first.                                                 *)
(***************************************************************************)
StepsBeforeSelection ==
    IF cls = "YouTubeMatch"
    THEN <<"user_consumed", "score">>
    ELSE <<"score", "user_consumed">>

RecommendStepsMutant(short) == <<"_check_unknown_user">> \o StepsBeforeSelection
RecommendSteps(short) ==
    IF short
    THEN <<"_check_unknown_user">>
    ELSE <<"_check_unknown_user">> \o StepsBeforeSelection

NoCall == [op |-> "none"]
MetricIdle == [pc |-> "idle"]
FitIdle == [pc |-> "idle"]
\* a fit call is between its entry and its return or raise
FitRunning == fit.pc \notin {"idle", "returned", "raised"}
\* no batch trained yet, no latent vector taken
ClockZero == [batches |-> 0, user_vector_at |-> None, item_weights_at |-> None]

\* what one recommend_user call was given and what it produced: outcome is
\* "None" (the bare return), "ValueError" (raised) or "list"; partition is
\* what np.argpartition was given and produced, if it ran; first is what
\* the call made just before with the same arguments produced, if any
RecoCall(user, n_rec, outcome, result, steps, partition, first) ==
    [op |-> "recommend_user", user |-> user, n_rec |-> n_rec,
     outcome |-> outcome, result |-> result, steps |-> steps,
     partition |-> partition, first |-> first]

(***************************************************************************)
(* The training data sets: user -> list of consumed item ids.  Only the    *)
(* length of a list and membership in it are read, so lists are taken in   *)
(* ascending order; an item may occur more than once.                      *)
(***************************************************************************)
Ascending(s) == \A a, b \in DOMAIN s : a < b => s[a] <= s[b]

ConsumedLists == {s \in SeqsUpTo(Items, MaxInteractions) : Ascending(s)}

TrainSets ==
    {uc \in [Users -> ConsumedLists] :
        SumSeq([u \in 1 .. n_users |-> Len(uc[u - 1])]) <= MaxInteractions}

TrainedVariables ==
    [user_repr : [Users -> UserVecs], nce_weights : [Items -> Weights]]

(***************************************************************************)
(* The state after construction (WideDeep.__init__, YouTubeMatch.__init__).*)
(***************************************************************************)
Configs ==
    {<<"WideDeep", "rating">>, <<"WideDeep", "ranking">>,
     <<"YouTubeMatch", "ranking">>}

\* the keyword defaults of the constructors: batch_sampling=False
\* (WideDeep only), loss_type="nce" (YouTubeMatch only),
\* lower_upper_bound=None; one epoch stands for n_epochs=20
DefaultConfig(class, t) ==
    [batch_sampling |-> IF class = "WideDeep" THEN Some(FALSE) ELSE None,
     loss_type |-> IF class = "YouTubeMatch" THEN Some("nce") ELSE None,
     bounds |-> IF t = "rating"
                THEN Some(<<lower_bound, upper_bound>>) ELSE None,
     n_epochs |-> 1]

Init ==
    /\ \E c \in Configs : cls = c[1] /\ task = c[2]
    /\ user_consumed = None
    /\ sess = None
    /\ user_vector = None
    /\ item_weights = None
    /\ call = NoCall
    /\ metric = MetricIdle
    /\ config = DefaultConfig(cls, task)
    /\ graph = "none"
    /\ fit = FitIdle
    /\ clock = ClockZero

(***************************************************************************)
(* fit: takes the consumed lists of the training data, trains the          *)
(* variables of the session and, for YouTubeMatch, ends with               *)
(* _set_latent_vectors, which caches the user vectors and item weights.    *)
(***************************************************************************)
\* a variant that takes item_weights once and never again
_set_latent_vectorsMutant(trained, batches) ==
    /\ user_vector' = Some(trained.user_repr)
    /\ item_weights' = IF item_weights = None
                       THEN Some(trained.nce_weights) ELSE item_weights
    /\ clock' = [batches |-> batches, user_vector_at |-> Some(batches),
                 item_weights_at |-> IF item_weights = None
                                     THEN Some(batches)
                                     ELSE clock.item_weights_at]

_set_latent_vectors(trained, batches) ==
    /\ user_vector' = Some(trained.user_repr)
    /\ item_weights' = Some(trained.nce_weights)
    /\ clock' = [batches |-> batches, user_vector_at |-> Some(batches),
                 item_weights_at |-> Some(batches)]

Fit(train_sets, trainings) ==
    /\ user_consumed = None
    /\ \E train_data \in train_sets, trained \in trainings :
          /\ user_consumed' = Some(train_data)
          /\ sess' = Some(trained)
          /\ IF cls = "YouTubeMatch"
             THEN _set_latent_vectors(trained, clock.batches + 1)
             ELSE /\ clock' = [clock EXCEPT !.batches = @ + 1]
                  /\ UNCHANGED <<user_vector, item_weights>>
    /\ graph' = "train_ops"
    /\ call' = NoCall
    /\ UNCHANGED <<cls, task, metric, config, fit>>

FitModel == Fit(TrainSets, TrainedVariables)

(***************************************************************************)
(* recommend_user(user, n_rec) of WideDeep and YouTubeMatch.               *)
(***************************************************************************)
\* the user ids a caller passes: both ends of the valid range and the ids
\* just outside it
UserArgs == {-1, 0, n_users - 1, n_users}

recommend_user(user, n_rec, memo, first) ==
    IF NotTruthy(_check_unknown_user(user))
    THEN call' = RecoCall(user, n_rec, "None", << >>,
                          RecommendSteps(TRUE), None, first)
    ELSE IF cls = "YouTubeMatch" /\ user_vector = None
    THEN \* self.user_vector[user] on None
         call' = RecoCall(user, n_rec, "TypeError", << >>,
                          RecommendSteps(FALSE), None, first)
    ELSE \E consumed \in {user_consumed[1][user]}, recos \in {Recos(user)} :
            IF ArgPartitionRaises(n_rec + Len(consumed))
            THEN call' = RecoCall(user, n_rec, "ValueError", << >>,
                             RecommendSteps(FALSE) \o <<"argpartition">>,
                             None, first)
            ELSE \E ids \in ArgPartitionAgain(recos, n_rec + Len(consumed),
                                              memo) :
                    call' = RecoCall(user, n_rec, "list",
                       ISlice(NotConsumed(SortedRank(ids, recos),
                                          consumed), n_rec),
                       RecommendSteps(FALSE)
                           \o <<"argpartition", "sorted", "islice">>,
                       Some([recos |-> recos,
                             count |-> n_rec + Len(consumed),
                             ids |-> ids]),
                       first)

RecommendUser ==
    /\ user_consumed # None
    /\ ~FitRunning
    /\ call = NoCall
    /\ \E user \in UserArgs, n_rec \in 1 .. MaxNRec :
          recommend_user(user, n_rec, None, None)
    /\ UNCHANGED <<fitvars, cls, task, user_consumed, sess, user_vector,
                   item_weights,
                   metric>>

(***************************************************************************)
(* The caller repeats the recommend_user call it has just made, with the   *)
(* same user and n_rec, and keeps what the first call returned next to the *)
(* new result.                                                             *)
(***************************************************************************)
RecommendUserAgain ==
    /\ user_consumed # None
    /\ ~FitRunning
    /\ call.op = "recommend_user"
    /\ call.first = None
    /\ recommend_user(call.user, call.n_rec, call.partition,
                      Some([outcome |-> call.outcome,
                            result |-> call.result]))
    /\ UNCHANGED <<fitvars, cls, task, user_consumed, sess, user_vector,
                   item_weights,
                   metric>>

(***************************************************************************)
(* The caller takes what the call returned; nothing of it is stored in the *)
(* model, which is then ready for the next call.                           *)
(***************************************************************************)
Consume ==
    /\ call # NoCall
    /\ call' = NoCall
    /\ UNCHANGED <<fitvars, cls, task, user_consumed, sess, user_vector,
                   item_weights,
                   metric>>

Next == FitModel \/ RecommendUser \/ Consume

Spec == Init /\ [][Next]_vars

\* the specification of the repeated calls
NextTwice == FitModel \/ RecommendUser \/ RecommendUserAgain \/ Consume

SpecTwice == Init /\ [][NextTwice]_vars

(***************************************************************************)
(* Base._check_unknown(user, item) on two arrays of the same length.       *)
(* The positions are those of the arrays (1-based here).  The arrays are   *)
(* overwritten in place and returned; unknown_user and unknown_item are    *)
(* the raw ids the diagnostic prints, taken before the overwrite.          *)
(***************************************************************************)
\* a variant that counts the user positions and the item positions apart
_check_unknownMutant(user, item) ==
    LET unknown_user_indices ==
            {p \in DOMAIN user : user[p] >= n_users \/ user[p] < 0}
        unknown_item_indices ==
            {p \in DOMAIN item : item[p] >= n_items \/ item[p] < 0}
        unknown_index == unknown_user_indices \cup unknown_item_indices
    IN  [unknown_num |-> Cardinality(unknown_user_indices)
                             + Cardinality(unknown_item_indices),
         unknown_index |-> unknown_index,
         user |-> [p \in DOMAIN user |->
                      IF p \in unknown_index THEN 0 ELSE user[p]],
         item |-> [p \in DOMAIN item |->
                      IF p \in unknown_index THEN 0 ELSE item[p]],
         unknown_user |-> {user[p] : p \in unknown_user_indices},
         unknown_item |-> {item[p] : p \in unknown_item_indices}]

_check_unknown(user, item) ==
    LET unknown_user_indices ==
            {p \in DOMAIN user : user[p] >= n_users \/ user[p] < 0}
        unknown_item_indices ==
            {p \in DOMAIN item : item[p] >= n_items \/ item[p] < 0}
        unknown_index == unknown_user_indices \cup unknown_item_indices
    IN  [unknown_num |-> Cardinality(unknown_index),
         unknown_index |-> unknown_index,
         user |-> IF Cardinality(unknown_index) > 0
                  THEN [p \in DOMAIN user |->
                           IF p \in unknown_index THEN 0 ELSE user[p]]
                  ELSE user,
         item |-> IF Cardinality(unknown_index) > 0
                  THEN [p \in DOMAIN item |->
                           IF p \in unknown_index THEN 0 ELSE item[p]]
                  ELSE item,
         unknown_user |-> {user[p] : p \in unknown_user_indices},
         unknown_item |-> {item[p] : p \in unknown_item_indices}]

(***************************************************************************)
(* The argument kinds of predict.  np.asarray([x]) of an int and           *)
(* np.asarray of a list build a new array; np.asarray of an ndarray is the *)
(* caller's array itself, so what _check_unknown writes into it the caller *)
(* sees.                                                                   *)
(***************************************************************************)
ArgKinds == {"int", "list", "ndarray"}
AsArrayAliases(kind) == kind = "ndarray"

\* the caller's argument after the call, given the array the call worked on
CallerSees(kind, before, array_after) ==
    IF AsArrayAliases(kind) THEN array_after ELSE before

(***************************************************************************)
(* The predictions before the default is written in.                       *)
(*   YouTubeMatch: the sigmoid of the products, one per position.          *)
(*   WideDeep: sess.run(self.output), clipped (rating) or passed through   *)
(*   the sigmoid (ranking).                                                *)
(***************************************************************************)
Preds(user, item) ==
    [p \in DOMAIN user |->
        IF cls = "WideDeep" /\ task = "rating"
        THEN Clip(RawScore(user[p], item[p]))
        ELSE Sigmoid(RawScore(user[p], item[p]))]

\* preds[unknown_index] = self.default_prediction
OverwriteDefault(preds, unknown_index) ==
    [p \in DOMAIN preds |->
        IF p \in unknown_index THEN default_prediction ELSE preds[p]]

(***************************************************************************)
(* The shape of what the scoring step yields.  WideDeep.output is          *)
(* tf.squeeze(wide_term + deep_term): for a batch of one pair every        *)
(* dimension is squeezed away and sess.run yields a scalar, which has no   *)
(* positions to assign to.  YouTubeMatch sums along axis 1 of a 2-d        *)
(* product and always has one position per pair.                           *)
(***************************************************************************)
ScoresAreScalar(n) == cls = "WideDeep" /\ n = 1

\* YouTubeMatch: return preds[0] if len(user) == 1 else preds
\* WideDeep: return preds
ReturnsScalar(n) == n = 1

\* what one predict call was given and what it produced: outcome is
\* "array", "scalar" (one number, not an array) or "TypeError" (raised)
PredictCall(kind, user, item, checked, outcome, preds) ==
    [op |-> "predict", kind |-> kind, user |-> user, item |-> item,
     checked |-> checked, outcome |-> outcome, preds |-> preds,
     user_after |-> CallerSees(kind, user, checked.user),
     item_after |-> CallerSees(kind, item, checked.item)]

\* the ids a caller passes: both ends of the valid range and the ids just
\* outside it
ItemArgs == {-1, 0, n_items - 1, n_items}

(***************************************************************************)
(* predict(user, item) of WideDeep and YouTubeMatch on a batch of n pairs. *)
(***************************************************************************)
PredictBatch(kinds, max_batch) ==
    /\ user_consumed # None
    /\ ~FitRunning
    /\ call = NoCall
    /\ \E kind \in kinds, n \in 1 .. max_batch :
          /\ kind = "int" => n = 1
          /\ \E user \in [1 .. n -> UserArgs], item \in [1 .. n -> ItemArgs] :
                \E checked \in {_check_unknown(user, item)} :
                   IF cls = "YouTubeMatch" /\ user_vector = None
                   THEN \* self.user_vector[user] on None
                        call' = PredictCall(kind, user, item, checked,
                                            "TypeError", << >>)
                   ELSE
                   \E preds \in {Preds(checked.user, checked.item)} :
                      IF checked.unknown_num > 0 /\ ScoresAreScalar(n)
                      THEN call' = PredictCall(kind, user, item, checked,
                                               "TypeError", << >>)
                      ELSE call' = PredictCall(kind, user, item, checked,
                                      IF ReturnsScalar(n)
                                      THEN "scalar" ELSE "array",
                                      IF checked.unknown_num > 0
                                      THEN OverwriteDefault(
                                               preds, checked.unknown_index)
                                      ELSE preds)
    /\ UNCHANGED <<fitvars, cls, task, user_consumed, sess, user_vector,
                   item_weights,
                   metric>>

Predict == PredictBatch(ArgKinds, MaxBatch)

(***************************************************************************)
(* The specification of the prediction calls.  predict reads the trained   *)
(* variables one pair at a time and never reads user_consumed, so the      *)
(* trainings explored here give every item the same weight and the         *)
(* training data holds no interaction.                                     *)
(***************************************************************************)
NoInteractions == {[u \in Users |-> << >>]}

UniformTrainings ==
    {t \in TrainedVariables :
        \A i, j \in Items : t.nce_weights[i] = t.nce_weights[j]}

FitForPredict == Fit(NoInteractions, UniformTrainings)

NextPredict == FitForPredict \/ Predict \/ Consume

SpecPredict == Init /\ [][NextPredict]_vars

(***************************************************************************)
(* Construction.  Base.__init__ keeps the task; for a rating task it takes *)
(* the bounds from lower_upper_bound, after asserting that it is a list or *)
(* a tuple, or from the data; any task other than "rating" and "ranking"   *)
(* raises ValueError.  The constructors keep loss_type, batch_sampling and *)
(* n_epochs as they are given.                                             *)
(***************************************************************************)
Classes == {"WideDeep", "YouTubeMatch"}
TaskArgs == {"rating", "ranking", "regression"}
LossTypeArgs == {"nce", "sampled_softmax", "softmax"}
\* lower_upper_bound: None, a list of two in order or out of order, a list
\* of one, or a value that is neither list nor tuple
BoundArgs ==
    {None,
     Some([is_list |-> TRUE, values |-> <<1, 5>>]),
     Some([is_list |-> TRUE, values |-> <<5, 1>>]),
     Some([is_list |-> TRUE, values |-> <<3>>]),
     Some([is_list |-> FALSE, values |-> <<3>>])}

\* how Base.__init__ ends
BaseInit(t, lower_upper_bound) ==
    IF t = "rating"
    THEN IF lower_upper_bound # None
         THEN IF ~lower_upper_bound[1].is_list THEN "AssertionError"
              ELSE IF Len(lower_upper_bound[1].values) < 2 THEN "IndexError"
              ELSE "ok"
         ELSE "ok"
    ELSE IF t # "ranking" THEN "ValueError" ELSE "ok"

\* self.lower_bound, self.upper_bound after Base.__init__ has ended well
BoundsKept(t, lower_upper_bound) ==
    IF t = "rating"
    THEN IF lower_upper_bound # None
         THEN Some(<<lower_upper_bound[1].values[1],
                     lower_upper_bound[1].values[2]>>)
         ELSE Some(<<lower_bound, upper_bound>>)
    ELSE None

InitCall(class, t, lower_upper_bound, loss_type, outcome) ==
    [op |-> "__init__", class |-> class, task |-> t,
     lower_upper_bound |-> lower_upper_bound, loss_type |-> loss_type,
     outcome |-> outcome]

Construct ==
    /\ cls = "none"
    /\ call = NoCall
    /\ \E class \in Classes, t \in TaskArgs, lower_upper_bound \in BoundArgs,
          loss_type \in LossTypeArgs, batch_sampling \in BOOLEAN,
          n_epochs \in 1 .. MaxEpochs :
          /\ class = "WideDeep" => loss_type = "nce"
          /\ class = "YouTubeMatch" => batch_sampling = FALSE
          /\ call' = InitCall(class, t, lower_upper_bound,
                         IF class = "YouTubeMatch" THEN Some(loss_type)
                         ELSE None,
                         BaseInit(t, lower_upper_bound))
          /\ IF BaseInit(t, lower_upper_bound) = "ok"
             THEN /\ cls' = class
                  /\ task' = t
                  /\ config' =
                        [batch_sampling |-> IF class = "WideDeep"
                                            THEN Some(batch_sampling)
                                            ELSE None,
                         loss_type |-> IF class = "YouTubeMatch"
                                       THEN Some(loss_type) ELSE None,
                         bounds |-> BoundsKept(t, lower_upper_bound),
                         n_epochs |-> n_epochs]
             ELSE UNCHANGED <<cls, task, config>>
    /\ UNCHANGED <<user_consumed, sess, user_vector, item_weights, metric,
                   graph, fit, clock>>

(***************************************************************************)
(* fit, one statement at a time.  fit.pc names the statement the call is   *)
(* about to execute; "idle", "returned" and "raised" say that no fit is    *)
(* running.  before is what the object held when fit was invoked.          *)
(***************************************************************************)
FitAt(pc) == [fit EXCEPT !.pc = pc]
FitRaises(error) == [fit EXCEPT !.pc = "raised", !.error = error]

\* tf.global_variables_initializer: the variables before any training
InitialVariables ==
    [user_repr |-> [u \in Users |-> 1], nce_weights |-> [i \in Items |-> 0]]

\* fit is entered: YouTubeMatch asserts the ranking task and checks the
\* item columns (youtube_match.py:217-219); WideDeep has no entry check
FitCall ==
    /\ cls # "none"
    /\ ~FitRunning
    /\ call = NoCall
    /\ clock.batches = 0
    /\ \E verbose \in {1, 2}, has_sampled \in BOOLEAN, item_col \in BOOLEAN,
          train_data \in NoInteractions :
          LET entered ==
                [pc |-> "user_consumed", verbose |-> verbose,
                 has_sampled |-> has_sampled, train_data |-> train_data,
                 epoch |-> 1, batch |-> 0, error |-> "",
                 before |-> [user_consumed |-> user_consumed,
                             graph |-> graph, sess |-> sess]]
          IN  IF cls = "YouTubeMatch" /\ task # "ranking"
              THEN fit' = [entered EXCEPT !.pc = "raised",
                                          !.error = "AssertionError"]
              ELSE IF cls = "YouTubeMatch" /\ item_col
              THEN fit' = [entered EXCEPT !.pc = "raised",
                                          !.error = "ValueError"]
              ELSE /\ cls = "WideDeep" => ~item_col
                   /\ fit' = entered
    /\ UNCHANGED <<cls, task, user_consumed, sess, user_vector, item_weights,
                   call, metric, config, graph, clock>>

\* self.user_consumed = train_data.user_consumed
FitUserConsumed ==
    /\ fit.pc = "user_consumed"
    /\ user_consumed' = Some(fit.train_data)
    /\ fit' = FitAt("_build_model")
    /\ UNCHANGED <<cls, task, sess, user_vector, item_weights, call, metric,
                   config, graph, clock>>

\* self._build_model()
FitBuildModel ==
    /\ fit.pc = "_build_model"
    /\ graph' = "model"
    /\ fit' = FitAt("_build_train_ops")
    /\ UNCHANGED <<cls, task, user_consumed, sess, user_vector, item_weights,
                   call, metric, config, clock>>

\* self._build_train_ops(global_steps): YouTubeMatch raises ValueError for
\* a loss type other than "nce" and "sampled_softmax"; otherwise the
\* training op is built and the variables are initialized
FitBuildTrainOps ==
    /\ fit.pc = "_build_train_ops"
    /\ IF cls = "YouTubeMatch"
          /\ config.loss_type[1] \notin {"nce", "sampled_softmax"}
       THEN /\ fit' = FitRaises("ValueError")
            /\ UNCHANGED <<graph, sess>>
       ELSE /\ graph' = "train_ops"
            /\ sess' = Some(InitialVariables)
            /\ fit' = FitAt(IF cls = "WideDeep"
                            THEN "_check_has_sampled" ELSE "batches")
    /\ UNCHANGED <<cls, task, user_consumed, user_vector, item_weights, call,
                   metric, config, clock>>

\* Base._check_has_sampled(data, verbose)
_check_has_sampled(has_sampled, verbose) ==
    IF ~has_sampled /\ verbose > 1 THEN "NotSamplingError" ELSE "ok"

\* WideDeep.fit: if self.task == "ranking" and self.batch_sampling:
\*                   self._check_has_sampled(train_data, verbose)
FitCheckHasSampled ==
    /\ fit.pc = "_check_has_sampled"
    /\ IF /\ task = "ranking"
          /\ config.batch_sampling[1]
          /\ _check_has_sampled(fit.has_sampled, fit.verbose) # "ok"
       THEN fit' = FitRaises(_check_has_sampled(fit.has_sampled, fit.verbose))
       ELSE fit' = FitAt("batches")
    /\ UNCHANGED <<cls, task, user_consumed, sess, user_vector, item_weights,
                   call, metric, config, graph, clock>>

\* one batch of the epoch: self.sess.run([self.loss, self.training_op])
TrainBatch ==
    /\ fit.pc = "batches"
    /\ fit.batch < MaxBatchesPerEpoch
    /\ \E trained \in UniformTrainings : sess' = Some(trained)
    /\ clock' = [clock EXCEPT !.batches = @ + 1]
    /\ fit' = [fit EXCEPT !.batch = @ + 1]
    /\ UNCHANGED <<cls, task, user_consumed, user_vector, item_weights, call,
                   metric, config, graph>>

\* where the epoch loop goes after the evaluation block of an epoch
AfterEpoch ==
    IF fit.epoch < config.n_epochs
    THEN [fit EXCEPT !.pc = "batches", !.epoch = @ + 1, !.batch = 0]
    ELSE FitAt("end")

\* the data generator is exhausted: if verbose > 1 the epoch is evaluated,
\* for YouTubeMatch after self._set_latent_vectors()
EpochEnd ==
    /\ fit.pc = "batches"
    /\ fit.batch >= 1
    /\ IF fit.verbose > 1
       THEN /\ fit' = FitAt("print_metrics")
            /\ IF cls = "YouTubeMatch"
               THEN _set_latent_vectors(sess[1], clock.batches)
               ELSE UNCHANGED <<user_vector, item_weights, clock>>
       ELSE /\ fit' = AfterEpoch
            /\ UNCHANGED <<user_vector, item_weights, clock>>
    /\ UNCHANGED <<cls, task, user_consumed, sess, call, metric, config,
                   graph>>

\* self.print_metrics(eval_data=eval_data, metrics=metrics)
PrintMetrics ==
    /\ fit.pc = "print_metrics"
    /\ fit' = AfterEpoch
    /\ UNCHANGED <<cls, task, user_consumed, sess, user_vector, item_weights,
                   call, metric, config, graph, clock>>

\* the epochs are over: YouTubeMatch takes the latent vectors "for
\* prediction and recommendation", and fit returns
FitReturn ==
    /\ fit.pc = "end"
    /\ fit' = FitAt("returned")
    /\ IF cls = "YouTubeMatch"
       THEN _set_latent_vectors(sess[1], clock.batches)
       ELSE UNCHANGED <<user_vector, item_weights, clock>>
    /\ UNCHANGED <<cls, task, user_consumed, sess, call, metric, config,
                   graph>>

\* no object is constructed yet
InitFit ==
    /\ cls = "none"
    /\ task = "none"
    /\ user_consumed = None
    /\ sess = None
    /\ user_vector = None
    /\ item_weights = None
    /\ call = NoCall
    /\ metric = MetricIdle
    /\ config = None
    /\ graph = "none"
    /\ fit = FitIdle
    /\ clock = ClockZero

\* predict(user, item) with two ints
PredictPair == PredictBatch({"int"}, 1)

NextFit ==
    \/ Construct
    \/ FitCall
    \/ FitUserConsumed
    \/ FitBuildModel
    \/ FitBuildTrainOps
    \/ FitCheckHasSampled
    \/ TrainBatch
    \/ EpochEnd
    \/ PrintMetrics
    \/ FitReturn
    \/ RecommendUser
    \/ PredictPair
    \/ Consume

SpecFit == InitFit /\ [][NextFit]_vars

(***************************************************************************)
(* The rank metrics of evaluate/metrics.py.                                *)
(*                                                                         *)
(* A metric value is a fraction <<numerator, denominator>> in lowest       *)
(* terms.  np.mean of an empty list divides 0 by 0 and yields nan, which   *)
(* is the fraction <<0, 0>>.                                               *)
(***************************************************************************)
RECURSIVE Gcd(_, _)
Gcd(a, b) == IF b = 0 THEN a ELSE Gcd(b, a % b)

NaN == <<0, 0>>
Zero == <<0, 1>>
Frac(n, d) ==
    IF d = 0 THEN NaN
    ELSE IF n = 0 THEN Zero
    ELSE <<n \div Gcd(n, d), d \div Gcd(n, d)>>

AddFrac(x, y) == Frac(x[1] * y[2] + y[1] * x[2], x[2] * y[2])

RECURSIVE SumFrac(_)
SumFrac(s) == IF s = << >> THEN Zero ELSE AddFrac(Head(s), SumFrac(Tail(s)))

\* a variant that leaves the zeros out of the count
NpMeanMutant(s) ==
    IF s = << >> THEN NaN
    ELSE Frac(SumFrac(s)[1],
              SumFrac(s)[2] * Len(SelectSeq(s, LAMBDA x : x # Zero)))

\* np.mean of a list of numbers
NpMean(s) ==
    IF s = << >> THEN NaN
    ELSE Frac(SumFrac(s)[1], SumFrac(s)[2] * Len(s))

\* the item ids the metrics see
MetricItems == 1 .. MaxK
\* a ground truth: unique item ids; a recommendation list: unique item
\* ids, already truncated to k
TrueSets == SUBSET MetricItems
RecoLists(k) == UNION {InjSeqs(MetricItems, m) : m \in 0 .. k}

(***************************************************************************)
(* np.intersect1d(y_true, y_reco, assume_unique=True,                      *)
(* return_indices=True) on unique inputs: the common items and the         *)
(* positions they have in y_reco (1-based here).                           *)
(***************************************************************************)
\* a variant that reports the first common position only
intersect1dMutant(y_true, y_reco) ==
    [common_items |-> y_true \cap Range(y_reco),
     indices_in_reco |->
        {p \in DOMAIN y_reco :
            /\ y_reco[p] \in y_true
            /\ \A q \in 1 .. p - 1 : y_reco[q] \notin y_true}]

intersect1d(y_true, y_reco) ==
    [common_items |-> y_true \cap Range(y_reco),
     indices_in_reco |-> {p \in DOMAIN y_reco : y_reco[p] \in y_true}]

\* a variant as long as the recommendation list
RankListMutant(y_true, y_reco, k) ==
    [p \in 1 .. Len(y_reco) |->
        IF p \in intersect1d(y_true, y_reco).indices_in_reco THEN 1 ELSE 0]

\* rank_list = np.zeros(k); rank_list[indices_in_reco] = 1
RankList(y_true, y_reco, k) ==
    [p \in 1 .. k |->
        IF p \in intersect1d(y_true, y_reco).indices_in_reco THEN 1 ELSE 0]

\* the body of the loop of precision_at_k
PrecisionOfUser(y_true, y_reco, k) ==
    IF Cardinality(intersect1d(y_true, y_reco).common_items) > 0
    THEN Frac(SumSeq(RankList(y_true, y_reco, k)),
              Len(RankList(y_true, y_reco, k)))
    ELSE Zero

\* the body of the loop of recall_at_k
RecallOfUser(y_true, y_reco, k) ==
    IF Cardinality(intersect1d(y_true, y_reco).common_items) > 0
    THEN Frac(Cardinality(intersect1d(y_true, y_reco).common_items),
              Cardinality(y_true))
    ELSE Zero

(***************************************************************************)
(* average_precision_at_k: ap holds np.mean(rank_list[:i+1]) for every     *)
(* position i of rank_list that is set, in rank order.                     *)
(***************************************************************************)
\* a variant that divides the hits so far by k instead of by the length
\* of the prefix
ApListMutant(rank_list) ==
    [j \in 1 .. SumSeq(rank_list) |-> Frac(j, Len(rank_list))]

ApList(rank_list) ==
    LET hits == {p \in DOMAIN rank_list : rank_list[p] = 1}
        RECURSIVE build(_)
        build(p) ==
            IF p > Len(rank_list) THEN << >>
            ELSE IF p \in hits
                 THEN <<Frac(Cardinality({q \in hits : q <= p}), p)>>
                          \o build(p + 1)
                 ELSE build(p + 1)
    IN  build(1)

\* assert len(ap) == common_items.size, reached when there is a common item
ApAssertion(y_true, y_reco, k) ==
    Cardinality(intersect1d(y_true, y_reco).common_items) > 0 =>
        Len(ApList(RankList(y_true, y_reco, k)))
            = Cardinality(intersect1d(y_true, y_reco).common_items)

average_precision_at_k(y_true, y_reco, k) ==
    IF Cardinality(intersect1d(y_true, y_reco).common_items) > 0
    THEN NpMean(ApList(RankList(y_true, y_reco, k)))
    ELSE Zero

(***************************************************************************)
(* The discount of ndcg_at_k, in hundredths: rank_list[0] is taken as it   *)
(* is and rank_list[i], i >= 1, is divided by np.log2(i + 1), the i-th     *)
(* entry of np.log2(np.arange(2, k + 1)).  Position p here is i + 1.       *)
(***************************************************************************)
Discount(p) ==
    CASE p = 1 -> 100
      [] p = 2 -> 100
      [] p = 3 -> 63
      [] p = 4 -> 50
      [] p = 5 -> 43
      [] OTHER -> 39

Dcg(rank_list) ==
    SumSeq([p \in DOMAIN rank_list |-> rank_list[p] * Discount(p)])

\* a variant that is all ones
IdealListMutant(rank_list) == [p \in DOMAIN rank_list |-> 1]

\* np.sort(rank_list)[::-1]: the ones first
IdealList(rank_list) ==
    [p \in DOMAIN rank_list |-> IF p <= SumSeq(rank_list) THEN 1 ELSE 0]

\* the body of the loop of ndcg_at_k
NdcgOfUser(y_true, y_reco, k) ==
    IF Cardinality(intersect1d(y_true, y_reco).common_items) > 0
    THEN Frac(Dcg(RankList(y_true, y_reco, k)),
              Dcg(IdealList(RankList(y_true, y_reco, k))))
    ELSE Zero

MetricNames == {"precision_at_k", "recall_at_k", "map_at_k", "ndcg_at_k"}

\* what the loop body of metric function fn appends for one user
ValueOfUser(fn, y_true, y_reco, k) ==
    CASE fn = "precision_at_k" -> PrecisionOfUser(y_true, y_reco, k)
      [] fn = "recall_at_k" -> RecallOfUser(y_true, y_reco, k)
      [] fn = "map_at_k" -> average_precision_at_k(y_true, y_reco, k)
      [] fn = "ndcg_at_k" -> NdcgOfUser(y_true, y_reco, k)

(***************************************************************************)
(* One call of precision_at_k, recall_at_k, map_at_k or ndcg_at_k.  The    *)
(* call enters the loop over users with an empty list; every iteration     *)
(* reads y_true_list[u] and y_reco_list[u] and appends the value of the    *)
(* user; the call returns np.mean of the list.  y_true and y_reco are      *)
(* rebound by the next iteration and are dropped with MetricNextUser.      *)
(***************************************************************************)
MetricCall ==
    /\ metric = MetricIdle
    /\ \E fn \in MetricNames, k \in 1 .. MaxK, n \in 0 .. MaxEvalUsers :
          metric' = [pc |-> "for", fn |-> fn, k |-> k, users |-> n,
                     remaining |-> n,
                     all |-> << >>]
    /\ UNCHANGED <<fitvars, cls, task, user_consumed, sess, user_vector,
                   item_weights,
                   call>>

MetricUser ==
    /\ metric.pc = "for"
    /\ metric.remaining > 0
    /\ \E y_true \in TrueSets, y_reco \in RecoLists(metric.k) :
          IF metric.fn = "map_at_k" /\ ~ApAssertion(y_true, y_reco, metric.k)
          THEN \* the assertion of average_precision_at_k fails
               metric' = [pc |-> "raised", fn |-> metric.fn, k |-> metric.k,
                          users |-> metric.users,
                          y_true |-> y_true, y_reco |-> y_reco,
                          all |-> metric.all, error |-> "AssertionError"]
          ELSE metric' =
                    [pc |-> "appended", fn |-> metric.fn, k |-> metric.k,
                     users |-> metric.users,
                     remaining |-> metric.remaining - 1,
                     y_true |-> y_true, y_reco |-> y_reco,
                     all |-> Append(metric.all,
                                ValueOfUser(metric.fn, y_true, y_reco,
                                            metric.k))]
    /\ UNCHANGED <<fitvars, cls, task, user_consumed, sess, user_vector,
                   item_weights,
                   call>>

MetricNextUser ==
    /\ metric.pc = "appended"
    /\ metric' = [pc |-> "for", fn |-> metric.fn, k |-> metric.k,
                  users |-> metric.users,
                  remaining |-> metric.remaining, all |-> metric.all]
    /\ UNCHANGED <<fitvars, cls, task, user_consumed, sess, user_vector,
                   item_weights,
                   call>>

MetricReturn ==
    /\ metric.pc = "for"
    /\ metric.remaining = 0
    /\ metric' = [pc |-> "returned", fn |-> metric.fn, k |-> metric.k,
                  users |-> metric.users,
                  all |-> metric.all, value |-> NpMean(metric.all)]
    /\ UNCHANGED <<fitvars, cls, task, user_consumed, sess, user_vector,
                   item_weights,
                   call>>

\* the metric functions need no model: none is constructed
InitMetrics ==
    /\ cls = "none"
    /\ task = "none"
    /\ user_consumed = None
    /\ sess = None
    /\ user_vector = None
    /\ item_weights = None
    /\ call = NoCall
    /\ metric = MetricIdle
    /\ config = None
    /\ graph = "none"
    /\ fit = FitIdle
    /\ clock = ClockZero

NextMetrics == MetricCall \/ MetricUser \/ MetricNextUser \/ MetricReturn

SpecMetrics == InitMetrics /\ [][NextMetrics]_vars

(***************************************************************************)
(* Views of the last recommend_user call.                                  *)
(***************************************************************************)
IsReco == call.op = "recommend_user"
ReturnedList == IsReco /\ call.outcome = "list"
InRange(user) == user \in Users
ConsumedOf(user) == user_consumed[1][user]
Distinct(s) == \A a, b \in DOMAIN s : a # b => s[a] # s[b]
ResultIds == {call.result[j][1] : j \in DOMAIN call.result}
\* the score recommend_user computes for an item of the user of the call
ScoreOf(i) == Recos(call.user)[i]

(***************************************************************************)
(* C1.  No item id returned by recommend_user is a member of the consumed  *)
(* list of the user the call was made for.                                 *)
(***************************************************************************)
C1_NoConsumedItemReturned ==
    ReturnedList => ResultIds \cap Range(ConsumedOf(call.user)) = {}

\* a list was returned although a consumed item scores at least as high as
\* a returned one: the filter had something to remove
C1_Witness ==
    /\ ReturnedList
    /\ \E c \in Range(ConsumedOf(call.user)), i \in ResultIds :
          ScoreOf(c) >= ScoreOf(i)

(***************************************************************************)
(* C2.  When the consumed list holds distinct catalog items and            *)
(* n_rec + |consumed| <= n_items, recommend_user returns exactly n_rec     *)
(* items and every returned item scores at least as high as every          *)
(* unconsumed item that was not returned.                                  *)
(***************************************************************************)
TopNExact ==
    /\ call.outcome = "list"
    /\ Len(call.result) = call.n_rec
    /\ Cardinality(ResultIds) = call.n_rec
    /\ \A i \in ResultIds :
          \A o \in (Items \ Range(ConsumedOf(call.user))) \ ResultIds :
              ScoreOf(i) >= ScoreOf(o)

C2_ExactlyNRecBest ==
    (/\ IsReco
     /\ InRange(call.user)
     /\ Distinct(ConsumedOf(call.user))
     /\ call.n_rec + Len(ConsumedOf(call.user)) <= n_items)
        => TopNExact

\* the same statement for the users whose id is not 0; it holds
C2_ExactlyNRecBestNonZeroUser ==
    (/\ IsReco
     /\ InRange(call.user) /\ call.user # 0
     /\ Distinct(ConsumedOf(call.user))
     /\ call.n_rec + Len(ConsumedOf(call.user)) <= n_items)
        => TopNExact

(***************************************************************************)
(* C3.  The returned list is in descending score order, and of two         *)
(* returned items with equal scores the one with the lower id comes first. *)
(***************************************************************************)
C3_DescendingLowerIdFirst ==
    ReturnedList =>
        \A a, b \in DOMAIN call.result :
            a < b =>
                \/ call.result[a][2] > call.result[b][2]
                \/ /\ call.result[a][2] = call.result[b][2]
                   /\ call.result[a][1] < call.result[b][1]

\* what does hold: the scores never increase along the list
C3_DescendingScores ==
    ReturnedList =>
        \A a, b \in DOMAIN call.result :
            a < b => call.result[a][2] >= call.result[b][2]

(***************************************************************************)
(* C4.  When n_rec + |consumed| > n_items, recommend_user does not raise:  *)
(* it returns all unconsumed items (at most n_rec of them) in descending   *)
(* score order, without padding.                                           *)
(***************************************************************************)
C4_WindowClampedNoRaise ==
    (/\ IsReco
     /\ InRange(call.user)
     /\ call.n_rec + Len(ConsumedOf(call.user)) > n_items)
        => /\ call.outcome # "ValueError"
           /\ call.outcome = "list" =>
                 /\ ResultIds \subseteq Items \ Range(ConsumedOf(call.user))
                 /\ Len(call.result) = Cardinality(ResultIds)
                 /\ \/ Len(call.result) = call.n_rec
                    \/ ResultIds = Items \ Range(ConsumedOf(call.user))
                 /\ \A a, b \in DOMAIN call.result :
                       a < b => call.result[a][2] >= call.result[b][2]

(***************************************************************************)
(* C5.  recommend_user produces no result exactly for the users outside    *)
(* 0 <= u < n_users: an in-range user, 0 included, never gets the bare     *)
(* return, and an out-of-range user always does.                           *)
(***************************************************************************)
C5_NoResultOnlyForUnknownUser ==
    IsReco => (call.outcome = "None" <=> ~InRange(call.user))

(***************************************************************************)
(* C6.  A recommend_user call for an out-of-range user executes neither    *)
(* the scoring step nor the lookup of the consumed list: the guard is the  *)
(* only step of the call.                                                  *)
(***************************************************************************)
C6_UnknownUserShortCircuits ==
    (IsReco /\ ~InRange(call.user)) =>
        /\ "score" \notin Range(call.steps)
        /\ "user_consumed" \notin Range(call.steps)
        /\ call.steps[1] = "_check_unknown_user"
        /\ call.outcome = "None"

\* a call for the first id past the range has been made and has returned
C6_Witness ==
    IsReco /\ call.user = n_users /\ call.outcome = "None"

(***************************************************************************)
(* Views of the last predict call.                                         *)
(***************************************************************************)
IsPredict == call.op = "predict"
\* the id at position p of the batch is outside the vocabulary
UnknownAt(p) == call.user[p] \notin Users \/ call.item[p] \notin Items
Flagged == call.checked.unknown_index
PredictionsOk ==
    /\ call.outcome = "array"
    /\ Len(call.preds) = Len(call.user)
    /\ \A p \in Flagged : call.preds[p] = default_prediction

(***************************************************************************)
(* C7.  _check_unknown flags exactly the positions where the user id or    *)
(* the item id is out of range; the count is the number of such positions  *)
(* (a position with both ids unknown counts once); both ids are 0 at every *)
(* flagged position, the ids at the other positions are unchanged, and so  *)
(* every sanitized id is in range.                                         *)
(***************************************************************************)
C7_CheckUnknownFlagsAndSanitizes ==
    IsPredict =>
        /\ Flagged = {p \in DOMAIN call.user : UnknownAt(p)}
        /\ call.checked.unknown_num =
               Cardinality({p \in DOMAIN call.user : UnknownAt(p)})
        /\ \A p \in DOMAIN call.user :
              /\ UnknownAt(p) =>
                    call.checked.user[p] = 0 /\ call.checked.item[p] = 0
              /\ ~UnknownAt(p) =>
                    /\ call.checked.user[p] = call.user[p]
                    /\ call.checked.item[p] = call.item[p]
              /\ call.checked.user[p] \in Users
              /\ call.checked.item[p] \in Items

\* a batch with a position where both ids are unknown (counted once), a
\* position where only the item id is unknown and its valid user id is
\* overwritten, or one next to a position whose non-zero ids are kept
C7_Witness ==
    /\ IsPredict
    /\ Len(call.user) = 2
    /\ call.user[1] \notin Users /\ call.item[1] \notin Items
    /\ call.user[2] = n_users - 1 /\ call.item[2] = n_items - 1
    /\ call.checked.unknown_num = 1
    /\ call.checked.user = <<0, n_users - 1>>

(***************************************************************************)
(* C8.  A batch predict call of any length >= 1 that contains out-of-range *)
(* ids does not raise and returns an array of the length of the input in   *)
(* which every flagged position holds the default prediction.              *)
(***************************************************************************)
C8_BatchPredictDefaults ==
    (IsPredict /\ call.checked.unknown_num > 0) => PredictionsOk

\* the same statement for the batches of two pairs or more; it holds
C8_BatchPredictDefaultsLongBatch ==
    (IsPredict /\ call.checked.unknown_num > 0 /\ Len(call.user) >= 2)
        => PredictionsOk

(***************************************************************************)
(* C9.  After predict returns, the user-id and item-id arguments the       *)
(* caller passed in hold the values they held before the call.             *)
(***************************************************************************)
C9_CallerArraysUnchanged ==
    IsPredict =>
        call.user_after = call.user /\ call.item_after = call.item

\* the same statement for int and list arguments; it holds
C9_CallerArraysUnchangedUnlessNdarray ==
    (IsPredict /\ call.kind # "ndarray") =>
        call.user_after = call.user /\ call.item_after = call.item

(***************************************************************************)
(* C10.  For all inputs, the empty set of users included, precision_at_k,  *)
(* recall_at_k, map_at_k and ndcg_at_k each return a value in [0, 1].      *)
(***************************************************************************)
InUnitInterval(x) == x[2] > 0 /\ 0 <= x[1] /\ x[1] <= x[2]

C10_MetricsInUnitInterval ==
    metric.pc = "returned" => InUnitInterval(metric.value)

\* the same statement for the calls given at least one user; it holds
C10_MetricsInUnitIntervalSomeUser ==
    (metric.pc = "returned" /\ metric.all # << >>)
        => InUnitInterval(metric.value)

(***************************************************************************)
(* Views of the running metric call.                                       *)
(***************************************************************************)
UserAppended == metric.pc = "appended"
MetricReturned == metric.pc = "returned"
\* the value the last iteration appended
LastValue == metric.all[Len(metric.all)]
One == <<1, 1>>
\* the hits of the user of the last iteration
Hits == metric.y_true \cap Range(metric.y_reco)
HitPositions == {p \in DOMAIN metric.y_reco : metric.y_reco[p] \in metric.y_true}
\* the returned value is the sum of the per-user values over the number of
\* users passed in (0 / 0 when no user was passed)
IsSumOverUsers ==
    /\ Len(metric.all) = metric.users
    /\ IF metric.users = 0
       THEN metric.value = NaN
       ELSE metric.value = Frac(SumFrac(metric.all)[1],
                                SumFrac(metric.all)[2] * metric.users)

(***************************************************************************)
(* C11.  A user whose ground truth is empty or disjoint from the           *)
(* recommendation list contributes exactly 0 to each of the four metrics   *)
(* and is still counted in the denominator: the result is the sum of the   *)
(* per-user values divided by the number of users passed in.               *)
(***************************************************************************)
C11_ZeroUserStillCounted ==
    /\ (UserAppended /\ Hits = {}) => LastValue = Zero
    /\ MetricReturned => IsSumOverUsers

\* two users, the first contributing 0 and the second 1: the mean is 1/2
C11_Witness ==
    /\ MetricReturned
    /\ metric.all = <<Zero, One>>
    /\ metric.value = <<1, 2>>

(***************************************************************************)
(* C12.  Perfect recommendation: if the recommendation list of a user is   *)
(* exactly the user's ground truth (size <= k), then precision@k,          *)
(* recall@k, map@k and ndcg@k are all 1 for that user.                     *)
(***************************************************************************)
IsPerfect == UserAppended /\ Range(metric.y_reco) = metric.y_true

C12_PerfectRecommendationAllOne == IsPerfect => LastValue = One

\* C12 as it holds: for a non-empty ground truth recall@k, map@k and ndcg@k
\* are 1 and precision@k is |ground truth| / k, which is 1 only when the
\* ground truth has k items
C12_PerfectRecommendation ==
    (IsPerfect /\ metric.y_true # {}) =>
        IF metric.fn = "precision_at_k"
        THEN LastValue = Frac(Cardinality(metric.y_true), metric.k)
        ELSE LastValue = One

\* a perfect list shorter than k, scored by ndcg_at_k
C12_Witness ==
    /\ IsPerfect
    /\ metric.fn = "ndcg_at_k"
    /\ metric.y_true # {}
    /\ Cardinality(metric.y_true) < metric.k
    /\ LastValue = One

(***************************************************************************)
(* C13.  ndcg_at_k discounts rank position 0 by 1 and every position       *)
(* i >= 1 by log2(i + 2), for DCG and for IDCG (IDCG over the indicator    *)
(* sorted descending).                                                     *)
(***************************************************************************)
\* 1 / log2(i + 2) for position i >= 1 and 1 for position 0, in
\* hundredths; position p here is i + 1
Log2Plus2Discount(p) ==
    CASE p = 1 -> 100
      [] p = 2 -> 63
      [] p = 3 -> 50
      [] p = 4 -> 43
      [] p = 5 -> 39
      [] OTHER -> 36

Indicator == [p \in 1 .. metric.k |-> IF p \in HitPositions THEN 1 ELSE 0]
SortedIndicator ==
    [p \in 1 .. metric.k |-> IF p <= Cardinality(HitPositions) THEN 1 ELSE 0]
Log2Plus2Dcg(rel) ==
    SumSeq([p \in DOMAIN rel |-> rel[p] * Log2Plus2Discount(p)])

C13_NdcgDiscountLog2Plus2 ==
    (UserAppended /\ metric.fn = "ndcg_at_k" /\ Hits # {}) =>
        LastValue = Frac(Log2Plus2Dcg(Indicator),
                         Log2Plus2Dcg(SortedIndicator))

(***************************************************************************)
(* C14.  For a unique recommendation list of length <= k, precision@k of   *)
(* the user is |hits| / k (the divisor is k also when the list is shorter  *)
(* than k) and recall@k is |hits| / |ground truth|.                        *)
(***************************************************************************)
C14_PrecisionAndRecallOfUser ==
    /\ (UserAppended /\ metric.fn = "precision_at_k") =>
           /\ LastValue[1] * metric.k = Cardinality(Hits) * LastValue[2]
           /\ LastValue[2] > 0
    /\ (UserAppended /\ metric.fn = "recall_at_k" /\ Hits # {}) =>
           /\ LastValue[1] * Cardinality(metric.y_true)
                  = Cardinality(Hits) * LastValue[2]
           /\ LastValue[2] > 0
    /\ (UserAppended /\ metric.fn = "recall_at_k" /\ Hits = {}) =>
           LastValue = Zero

\* one hit in a list of one item, k = 2: precision is 1/2
C14_Witness ==
    /\ UserAppended
    /\ metric.fn = "precision_at_k"
    /\ metric.k = 2
    /\ Len(metric.y_reco) = 1
    /\ Cardinality(Hits) = 1
    /\ LastValue = <<1, 2>>

(***************************************************************************)
(* C15.  average_precision_at_k is the mean, over the hit positions i      *)
(* only, of (number of hits in positions 0..i) / (i + 1), and 0 when there *)
(* is no hit; map_at_k is the arithmetic mean of it over the users.        *)
(***************************************************************************)
RECURSIVE Factorial(_)
Factorial(n) == IF n <= 1 THEN 1 ELSE n * Factorial(n - 1)

\* the sum over the hit positions p of (hits up to p) / p, times k!
PrefixPrecisionSum ==
    SumSeq([p \in 1 .. metric.k |->
               IF p \in HitPositions
               THEN Cardinality({q \in HitPositions : q <= p})
                        * (Factorial(metric.k) \div p)
               ELSE 0])

C15_AveragePrecisionOverHits ==
    /\ (UserAppended /\ metric.fn = "map_at_k") =>
           IF HitPositions = {}
           THEN LastValue = Zero
           ELSE /\ LastValue[2] > 0
                /\ LastValue[1] * Cardinality(HitPositions)
                       * Factorial(metric.k)
                     = PrefixPrecisionSum * LastValue[2]
    /\ (MetricReturned /\ metric.fn = "map_at_k") => IsSumOverUsers

\* hits at positions 0 and 2 of three: (1/1 + 2/3) / 2 = 5/6
C15_Witness ==
    /\ UserAppended
    /\ metric.fn = "map_at_k"
    /\ HitPositions = {1, 3}
    /\ LastValue = <<5, 6>>

AtPrintMetrics == fit.pc = "print_metrics"
FitRaised(error) == fit.pc = "raised" /\ fit.error = error
\* the object holds what it held when fit was invoked
StateAsBeforeFit ==
    /\ user_consumed = fit.before.user_consumed
    /\ graph = fit.before.graph
    /\ sess = fit.before.sess

(***************************************************************************)
(* C17.  Per-epoch evaluation never runs on data whose sampling step has   *)
(* not completed: whatever the task, batch_sampling and verbose, a fit on  *)
(* train data with has_sampled false raises NotSamplingError before the    *)
(* first evaluation.                                                       *)
(***************************************************************************)
C17_NoEvaluationBeforeSampling == AtPrintMetrics => fit.has_sampled

\* the same statement for a WideDeep ranking model with batch_sampling,
\* the one configuration _check_has_sampled is called in; it holds
C17_NoEvaluationBeforeSamplingBatchSampling ==
    (/\ AtPrintMetrics
     /\ cls = "WideDeep"
     /\ task = "ranking"
     /\ config.batch_sampling = Some(TRUE)) => fit.has_sampled

(***************************************************************************)
(* C18.  When the guard raises NotSamplingError, the failing fit call has  *)
(* changed no model state: user_consumed, the built graph and training ops *)
(* and the session variables are as they were before fit was invoked.      *)
(***************************************************************************)
C18_NotSamplingErrorChangesNothing ==
    FitRaised("NotSamplingError") => StateAsBeforeFit

(***************************************************************************)
(* C19.  Every configuration error is raised at construction time: a task  *)
(* other than "rating" and "ranking", a loss_type other than "nce" and     *)
(* "sampled_softmax", or bounds that are not a pair or have the lower      *)
(* above the upper make the constructor fail, so no fit call, graph build  *)
(* or training batch starts on a misconfigured model.                      *)
(***************************************************************************)
ValidConfig ==
    /\ task \in {"rating", "ranking"}
    /\ config.loss_type # None =>
          config.loss_type[1] \in {"nce", "sampled_softmax"}
    /\ config.bounds # None => config.bounds[1][1] <= config.bounds[1][2]

C19_ConfigurationErrorsAtConstruction ==
    /\ cls # "none" => ValidConfig
    /\ ~FitRaised("ValueError")

\* the part of it that holds: a model never has a task other than "rating"
\* and "ranking"
C19_TaskCheckedAtConstruction ==
    cls # "none" => task \in {"rating", "ranking"}

(***************************************************************************)
(* C20.  The YouTubeMatch latent-vector cache is never read stale or       *)
(* unset: whenever a per-epoch evaluation during fit, or a predict or      *)
(* recommend_user call after fit has returned, reads user_vector and       *)
(* item_weights, both come from one _set_latent_vectors call that ran      *)
(* after the most recent training batch.                                   *)
(***************************************************************************)
LatentVectorsFresh ==
    /\ user_vector # None
    /\ item_weights # None
    /\ clock.user_vector_at = Some(clock.batches)
    /\ clock.item_weights_at = Some(clock.batches)

\* the last call was a predict or recommend_user that got to the scoring
ReadLatentVectors ==
    \/ call.op = "predict"
    \/ call.op = "recommend_user" /\ call.outcome # "None"

C20_LatentVectorsNeverStale ==
    cls = "YouTubeMatch" =>
        /\ AtPrintMetrics => LatentVectorsFresh
        /\ (fit.pc = "returned" /\ ReadLatentVectors) => LatentVectorsFresh

\* the evaluation of the second epoch, after two batches or more
C20_Witness ==
    /\ cls = "YouTubeMatch"
    /\ AtPrintMetrics
    /\ fit.epoch = 2
    /\ clock.batches >= 2
    /\ LatentVectorsFresh

(***************************************************************************)
(* C21.  The assertion of average_precision_at_k, that the number of hit   *)
(* positions found equals the size of the intersection, never fails for a  *)
(* ground-truth set and a recommendation list of unique items of length    *)
(* <= k.                                                                   *)
(***************************************************************************)
C21_ApAssertionNeverFails ==
    /\ metric.pc # "raised"
    /\ (UserAppended /\ metric.fn = "map_at_k") =>
           Cardinality(HitPositions) = Cardinality(Hits)

\* a list shorter than k with two hits, and a ground-truth item that is
\* not in the list, has passed the assertion
C21_Witness ==
    /\ UserAppended
    /\ metric.fn = "map_at_k"
    /\ Len(metric.y_reco) < metric.k
    /\ Cardinality(HitPositions) = 2
    /\ Cardinality(metric.y_true) = 3

=============================================================================
